---- MODULE Spec2Model ----
(***************************************************************************)
(* Model of src/main.py, the Indian Smart Shopping Assistant: the pure     *)
(* helpers (extract_price_range, build_search_query, ensure_rupee_format,  *)
(* filter_results), the fetch boundary and the Streamlit session flow.     *)
(*                                                                         *)
(* Python strings are TLA+ strings; TLC evaluates Len, SubSeq and \o on    *)
(* them, so substring tests, lower-casing and the regular expressions are  *)
(* computed character by character as the code computes them.              *)
(***************************************************************************)
EXTENDS Integers, Sequences, FiniteSets, TLC

VARIABLES
    api_keys,           \* st.session_state["SERPAPI_KEY"], ["OPENAI_API_KEY"]
    user_name,          \* st.session_state["user_name"]
    user_preferences,   \* st.session_state["user_preferences"]
    search_performed,   \* st.session_state["search_performed"]
    filtered_products,  \* st.session_state["filtered_products"]
    original_query,     \* st.session_state["original_query"]
    base_product,       \* value of the "What product are you looking for?" input
    answers,            \* values of the follow-up inputs, st.session_state["q<i>"]
    notices,            \* st.error notices raised by the last script run
    fetch_params,       \* params of the last GoogleSearch call
    summary_args,       \* arguments of generate_summary in the last script run
    match_percentages,  \* match percentages the last script run gave st.progress
    pc,                 \* position of the function call under study
    args,               \* its arguments
    ret                 \* its return value

vars == <<api_keys, user_name, user_preferences, search_performed, filtered_products,
          original_query, base_product, answers, notices, fetch_params,
          summary_args, match_percentages, pc, args, ret>>

session == <<api_keys, user_name, user_preferences, search_performed, filtered_products,
             original_query, base_product, answers, notices, fetch_params,
             summary_args, match_percentages>>

-----------------------------------------------------------------------------
(* Bounds of the model *)

MaxListings == 3

\* Decimal places a modelled float keeps.
FracDigits == 2

\* Tokens in a price string of the API.
MaxPriceLen == 3

-----------------------------------------------------------------------------
(* Python str operations *)

\* The one-character string at position i (1-based) of s, "" outside s.
CharAt(s, i) == IF i \in 1..Len(s) THEN SubSeq(s, i, i) ELSE ""

\* s[i-1 : j] of Python for 1-based i, j: the characters i..j that exist.
Slice(s, i, j) ==
    IF i > Len(s) \/ j < i THEN "" ELSE SubSeq(s, i, IF j > Len(s) THEN Len(s) ELSE j)

\* Python `t in s` for strings.
Contains(s, t) ==
    \E i \in 0..(Len(s) - Len(t)) : SubSeq(s, i + 1, i + Len(t)) = t

\* Python s.startswith(t).
StartsWith(s, t) == Len(t) <= Len(s) /\ SubSeq(s, 1, Len(t)) = t

UpperLetters == "ABCDEFGHIJKLMNOPQRSTUVWXYZ"
LowerLetters == "abcdefghijklmnopqrstuvwxyz"

\* The lower-case form of each upper-case letter.
LowerOf ==
    [c \in {CharAt(UpperLetters, i) : i \in 1..26} |->
        CharAt(LowerLetters, CHOOSE i \in 1..26 : CharAt(UpperLetters, i) = c)]

LowerChar(c) == IF c \in DOMAIN LowerOf THEN LowerOf[c] ELSE c

\* Python s.lower(): every character lower-cased (the string is split in
\* halves to keep the evaluation shallow).
RECURSIVE Lower(_)
Lower(s) ==
    IF Len(s) <= 1 THEN LowerChar(s)
    ELSE LET h == Len(s) \div 2
         IN  Lower(SubSeq(s, 1, h)) \o Lower(SubSeq(s, h + 1, Len(s)))

\* The rupee glyph as the source spells it: a three-character sequence
\* (U+00E2 U+201A U+00B9), none of them a letter that lower() changes, a
\* digit or white space.  Three ASCII stand-ins with the same properties.
Rupee == "{^}"

-----------------------------------------------------------------------------
(* filter_results: scoring and ranking, src/main.py 144-203 *)

colors ==
    <<"silver", "space grey", "space gray", "gold", "black", "white", "blue",
      "green", "purple", "red">>

preferred_sellers ==
    <<"amazon", "flipkart", "croma", "vijay sales", "reliance digital", "apple">>

\* for color in colors: if color in preferences_lower and color in title_lower: score += 3
RECURSIVE ColorPoints(_, _, _)
ColorPoints(preferences_lower, title_lower, i) ==
    IF i > Len(colors) THEN 0
    ELSE (IF Contains(preferences_lower, colors[i]) /\ Contains(title_lower, colors[i])
          THEN 3 ELSE 0)
         + ColorPoints(preferences_lower, title_lower, i + 1)

\* for seller in preferred_sellers: if seller in source_lower: score += 3
RECURSIVE SellerPoints(_, _)
SellerPoints(source_lower, i) ==
    IF i > Len(preferred_sellers) THEN 0
    ELSE (IF Contains(source_lower, preferred_sellers[i]) THEN 3 ELSE 0)
         + SellerPoints(source_lower, i + 1)

\* A penalty that looks for "refurbished" only.
PenaltyRefurbishedOnly(preferences_lower, title_lower) ==
    IF Contains(preferences_lower, "new") /\ Contains(title_lower, "refurbished")
    THEN -10 ELSE 0

\* if "new" in preferences_lower and ("refurbished" in title_lower or "used" in title_lower): score -= 10
PenaltyPoints(preferences_lower, title_lower) ==
    IF /\ Contains(preferences_lower, "new")
       /\ (Contains(title_lower, "refurbished") \/ Contains(title_lower, "used"))
    THEN -10 ELSE 0

\* The score the loop body of filter_results computes for one product.
MatchScore(product, preferences) ==
    LET preferences_lower == Lower(preferences)
        title_lower == Lower(product.title)
        source_lower == Lower(product.source)
        Both(x) == Contains(preferences_lower, x) /\ Contains(title_lower, x)
        Either(x, y) ==
            /\ Contains(preferences_lower, x) \/ Contains(preferences_lower, y)
            /\ Contains(title_lower, x) \/ Contains(title_lower, y)
        Size(x, y) ==
            /\ Contains(preferences_lower, x)
            /\ Contains(title_lower, x) \/ Contains(title_lower, y)
    IN  (IF Both("pro") THEN 5 ELSE 0)
      + (IF Both("air") THEN 5 ELSE 0)
      + (IF Size("16", "16-inch") THEN 4 ELSE 0)
      + (IF Size("14", "14-inch") THEN 4 ELSE 0)
      + (IF Size("13", "13-inch") THEN 4 ELSE 0)
      + (IF Both("512") THEN 3 ELSE 0)
      + (IF Either("1tb", "1 tb") THEN 3 ELSE 0)
      + (IF Either("2tb", "2 tb") THEN 3 ELSE 0)
      + (IF Either("16gb", "16 gb") THEN 2 ELSE 0)
      + (IF Either("32gb", "32 gb") THEN 2 ELSE 0)
      + ColorPoints(preferences_lower, title_lower, 1)
      + SellerPoints(source_lower, 1)
      + PenaltyPoints(preferences_lower, title_lower)

\* product["match_score"] = score
Scored(product, preferences) ==
    [title |-> product.title, source |-> product.source, price |-> product.price,
     link |-> product.link, match_score |-> MatchScore(product, preferences)]

\* An insertion that puts x before the elements of equal key (ties reversed).
RECURSIVE InsertBeforeEqual(_, _)
InsertBeforeEqual(sorted, x) ==
    IF sorted = <<>> THEN <<x>>
    ELSE IF Head(sorted).match_score > x.match_score
         THEN <<Head(sorted)>> \o InsertBeforeEqual(Tail(sorted), x)
         ELSE <<x>> \o sorted

\* Where sorted(..., reverse=True) places x among the already ordered prefix:
\* after every element whose key is not smaller (the sort is stable).
RECURSIVE InsertByScore(_, _)
InsertByScore(sorted, x) ==
    IF sorted = <<>> THEN <<x>>
    ELSE IF Head(sorted).match_score >= x.match_score
         THEN <<Head(sorted)>> \o InsertByScore(Tail(sorted), x)
         ELSE <<x>> \o sorted

RECURSIVE SortedDesc(_, _)
SortedDesc(acc, rest) ==
    IF rest = <<>> THEN acc
    ELSE SortedDesc(InsertByScore(acc, Head(rest)), Tail(rest))

\* The scored listings left in the order the API sent them (no sort).
ScoredInInputOrder(products, preferences) ==
    [i \in 1..Len(products) |-> Scored(products[i], preferences)]

filter_results(products, preferences) ==
    SortedDesc(<<>>, [i \in 1..Len(products) |-> Scored(products[i], preferences)])


-----------------------------------------------------------------------------
(* extract_price_range, src/main.py 28-38.  The pattern is
     (?:between\s+)?(?:R)?(\d+[,\d]*(?:\.\d+)?)\s*(?:to|-|and)\s*(?:R)?(\d+[,\d]*(?:\.\d+)?)
   with R the rupee glyph, searched with re.IGNORECASE.  Every quantifier is
   greedy; what follows each group leaves the backtracking no second way to
   match from a given start, so a match from a start is the greedy one. *)

Digits == {"0", "1", "2", "3", "4", "5", "6", "7", "8", "9"}
IsDigit(c) == c \in Digits
IsSpace(c) == c \in {" ", "\t", "\n"}

\* An optional float: None, or the one-element sequence of its value.
None == <<>>
Float(x) == <<x>>

\* \s* from position i: the first position at or after i that holds no space.
RECURSIVE SkipSpaces(_, _)
SkipSpaces(t, i) == IF IsSpace(CharAt(t, i)) THEN SkipSpaces(t, i + 1) ELSE i

\* The last position of the run of characters of set S that starts at i
\* (i - 1 when the character at i is not in S).
RECURSIVE RunEnd(_, _, _)
RunEnd(t, i, S) == IF CharAt(t, i) \in S THEN RunEnd(t, i + 1, S) ELSE i - 1

\* (\d+[,\d]*(?:\.\d+)?) at position i: the last position of the group,
\* or 0 when the character at i is no digit.
NumberEnd(t, i) ==
    IF ~IsDigit(CharAt(t, i)) THEN 0
    ELSE LET e == RunEnd(t, i, Digits \cup {","})
         IN  IF CharAt(t, e + 1) = "." /\ IsDigit(CharAt(t, e + 2))
             THEN RunEnd(t, e + 2, Digits)
             ELSE e

\* (?:to|-|and) at position i, case ignored: its length, or 0.
SeparatorLen(t, i) ==
    IF Lower(Slice(t, i, i + 1)) = "to" THEN 2
    ELSE IF CharAt(t, i) = "-" THEN 1
    ELSE IF Lower(Slice(t, i, i + 2)) = "and" THEN 3
    ELSE 0

\* (?:R)? at position i: the position after the glyph when it is there.
AfterGlyph(t, i) == IF Slice(t, i, i + Len(Rupee) - 1) = Rupee THEN i + Len(Rupee) ELSE i

\* (?:between\s+)? at position i: the position after it when it is there.
AfterBetween(t, i) ==
    IF Lower(Slice(t, i, i + 6)) = "between" /\ IsSpace(CharAt(t, i + 7))
    THEN SkipSpaces(t, i + 7)
    ELSE i

\* The match of the pattern that starts exactly at position s.
MatchAt(t, s) ==
    LET a == AfterGlyph(t, AfterBetween(t, s))
        e1 == NumberEnd(t, a)
        c == SkipSpaces(t, e1 + 1)
        n == SeparatorLen(t, c)
        b == AfterGlyph(t, SkipSpaces(t, c + n))
        e2 == NumberEnd(t, b)
    IN  IF e1 = 0 \/ n = 0 \/ e2 = 0 THEN [ok |-> FALSE]
        ELSE [ok |-> TRUE, group1 |-> Slice(t, a, e1), group2 |-> Slice(t, b, e2)]

\* A search that reports the rightmost match of the text.
LastSearch(t) ==
    LET starts == { s \in 1..Len(t) : MatchAt(t, s).ok }
    IN  IF starts = {} THEN [ok |-> FALSE]
        ELSE MatchAt(t, CHOOSE s \in starts : \A u \in starts : u <= s)

\* re.search: the match at the leftmost start that has one.
Search(t) ==
    LET starts == { s \in 1..Len(t) : MatchAt(t, s).ok }
    IN  IF starts = {} THEN [ok |-> FALSE]
        ELSE MatchAt(t, CHOOSE s \in starts : \A u \in starts : s <= u)

\* s.replace(',', '')
RECURSIVE StripCommas(_)
StripCommas(s) ==
    IF s = "" THEN ""
    ELSE (IF CharAt(s, 1) = "," THEN "" ELSE CharAt(s, 1)) \o StripCommas(Slice(s, 2, Len(s)))

DigitValue(c) == CHOOSE d \in 0..9 : CharAt("0123456789", d + 1) = c

RECURSIVE Pow10(_)
Pow10(n) == IF n = 0 THEN 1 ELSE 10 * Pow10(n - 1)

\* The integer a string of digits denotes.
RECURSIVE DigitsValue(_)
DigitsValue(s) ==
    IF s = "" THEN 0
    ELSE 10 * DigitsValue(Slice(s, 1, Len(s) - 1)) + DigitValue(CharAt(s, Len(s)))

\* float(s) for s of the form digits or digits.digits.  A float is held as
\* the integer number of 10^-FracDigits units it equals (the literals of the
\* model have at most FracDigits decimals, far below a double's precision).
ParseFloat(s) ==
    LET w == RunEnd(s, 1, Digits)
        frac == Slice(s, w + 2, w + 1 + FracDigits)
    IN  DigitsValue(Slice(s, 1, w)) * Pow10(FracDigits)
          + DigitsValue(frac) * Pow10(FracDigits - Len(frac))

extract_price_range(preferences) ==
    LET match == Search(preferences)
    IN  IF match.ok
        THEN <<Float(ParseFloat(StripCommas(match.group1))),
               Float(ParseFloat(StripCommas(match.group2)))>>
        ELSE <<None, None>>

-----------------------------------------------------------------------------
(* ensure_rupee_format, src/main.py 85-107 *)

\* usd_to_inr = 83.5, in tenths.
UsdToInrTenths == 835

\* re.search(r'[\d,]+\.?\d*', s): the text of the leftmost greedy match, or
\* "" (which no match is) when s has no digit and no comma.
NumberIn(s) ==
    LET starts == { i \in 1..Len(s) : CharAt(s, i) \in Digits \cup {","} }
    IN  IF starts = {} THEN ""
        ELSE LET i == CHOOSE x \in starts : \A y \in starts : x <= y
                 e == RunEnd(s, i, Digits \cup {","})
             IN  IF CharAt(s, e + 1) = "."
                 THEN Slice(s, i, RunEnd(s, e + 2, Digits))
                 ELSE Slice(s, i, e)

\* Whether float(s) succeeds for s made of digits and at most one point.
FloatParses(s) == \E i \in 1..Len(s) : IsDigit(CharAt(s, i))

\* str(n) for a natural number n.
RECURSIVE NatToStr(_)
NatToStr(n) ==
    IF n < 10 THEN CharAt("0123456789", n + 1)
    ELSE NatToStr(n \div 10) \o CharAt("0123456789", (n % 10) + 1)

\* The digits of n with a comma before every group of three (format ",").
RECURSIVE Grouped(_)
Grouped(n) ==
    IF n < 1000 THEN NatToStr(n)
    ELSE LET r == n % 1000
         IN  Grouped(n \div 1000) \o "," \o
             (IF r < 10 THEN "00" ELSE IF r < 100 THEN "0" ELSE "") \o NatToStr(r)

\* price_in_usd * usd_to_inr rounded to paise as format ".2f" rounds it, for
\* a price held in 10^-FracDigits units.  The whole dollars give a whole
\* number of paise; the products the model reaches are exact in paise, and a
\* tie of the fraction is rounded to even.
RupeePaise(usd) ==
    LET whole == usd \div Pow10(FracDigits)
        num == (usd % Pow10(FracDigits)) * UsdToInrTenths
        den == Pow10(FracDigits - 1)
        q == num \div den
        r == num % den
    IN  whole * UsdToInrTenths * 10
          + (IF 2 * r > den \/ (2 * r = den /\ q % 2 = 1) THEN q + 1 ELSE q)

\* f"R{price_in_inr:,.2f}"
FormatRupees(paise) ==
    Rupee \o Grouped(paise \div 100) \o "." \o
    (IF paise % 100 < 10 THEN "0" ELSE "") \o NatToStr(paise % 100)

\* A prefix step that prepends the glyph whether or not it is there.
AlwaysPrefixed(price_str) == Rupee \o price_str

\* if not price_str.startswith(R): price_str = f"R{price_str}"
Prefixed(price_str) ==
    IF StartsWith(price_str, Rupee) THEN price_str ELSE Rupee \o price_str

\* if "$" in price_str: ... the conversion of lines 94-105 (a float() that
\* raises is swallowed and leaves the string as it is).
Converted(price_str) ==
    IF ~Contains(price_str, "$") THEN price_str
    ELSE LET price_value == NumberIn(price_str)
         IN  IF price_value = "" THEN price_str
             ELSE IF ~FloatParses(StripCommas(price_value)) THEN price_str
             ELSE FormatRupees(RupeePaise(ParseFloat(StripCommas(price_value))))

ensure_rupee_format(price_str) ==
    IF price_str = "" \/ price_str = "N/A" THEN "N/A"
    ELSE Converted(Prefixed(price_str))

-----------------------------------------------------------------------------
(* build_search_query, src/main.py 41-76 *)

\* if "pro" in user_preferences.lower(): query += " Pro"
\* if "air" in user_preferences.lower(): query += " Air"
ModelSuffix(preferences) ==
       (IF Contains(Lower(preferences), "pro") THEN " Pro" ELSE "")
    \o (IF Contains(Lower(preferences), "air") THEN " Air" ELSE "")

\* if "16" in user_preferences or "16-inch" in user_preferences.lower(): ...
SizeSuffix(preferences) ==
    LET Marked(n) == Contains(preferences, n) \/ Contains(Lower(preferences), n \o "-inch")
    IN     (IF Marked("16") THEN " 16-inch" ELSE "")
        \o (IF Marked("14") THEN " 14-inch" ELSE "")
        \o (IF Marked("13") THEN " 13-inch" ELSE "")

\* Storage suffixes appended independently of each other.
StorageSuffixIndependent(preferences) ==
    LET pl == Lower(preferences)
    IN     (IF Contains(preferences, "512") THEN " 512GB" ELSE "")
        \o (IF Contains(pl, "1tb") \/ Contains(pl, "1 tb") THEN " 1TB" ELSE "")
        \o (IF Contains(pl, "2tb") \/ Contains(pl, "2 tb") THEN " 2TB" ELSE "")

\* if "512" ...: " 512GB"  elif "1tb"/"1 tb" ...: " 1TB"  elif "2tb"/"2 tb" ...: " 2TB"
StorageSuffix(preferences) ==
    LET pl == Lower(preferences)
    IN  IF Contains(preferences, "512") THEN " 512GB"
        ELSE IF Contains(pl, "1tb") \/ Contains(pl, "1 tb") THEN " 1TB"
        ELSE IF Contains(pl, "2tb") \/ Contains(pl, "2 tb") THEN " 2TB"
        ELSE ""

\* if "16gb"/"16 gb" ...: " 16GB"  elif "32gb"/"32 gb" ...: " 32GB"
RamSuffix(preferences) ==
    LET pl == Lower(preferences)
    IN  IF Contains(pl, "16gb") \/ Contains(pl, "16 gb") THEN " 16GB"
        ELSE IF Contains(pl, "32gb") \/ Contains(pl, "32 gb") THEN " 32GB"
        ELSE ""

\* A colour loop that stops at the first colour found.
RECURSIVE FirstColorSuffix(_, _)
FirstColorSuffix(preferences, i) ==
    IF i > Len(colors) THEN ""
    ELSE IF Contains(Lower(preferences), colors[i]) THEN " " \o colors[i]
    ELSE FirstColorSuffix(preferences, i + 1)

\* for color in colors: if color in user_preferences.lower(): query += f" {color}"
\* (the list of line 71 is the list of line 183)
RECURSIVE ColorSuffix(_, _)
ColorSuffix(preferences, i) ==
    IF i > Len(colors) THEN ""
    ELSE (IF Contains(Lower(preferences), colors[i]) THEN " " \o colors[i] ELSE "")
         \o ColorSuffix(preferences, i + 1)

build_search_query(base, preferences) ==
    base \o ModelSuffix(preferences) \o SizeSuffix(preferences)
                 \o StorageSuffix(preferences) \o RamSuffix(preferences)
                 \o ColorSuffix(preferences, 1)

-----------------------------------------------------------------------------
(* Inputs of the ranking specification *)

\* Listings as the shopping API returns them (title, source, link).
Catalog ==
    { [title |-> "Apple MacBook Pro 16-inch", source |-> "Amazon.in",
       price |-> Rupee \o "2,49,900", link |-> "l1"],
      [title |-> "MacBook Pro 16 (Refurbished)", source |-> "Flipkart",
       price |-> Rupee \o "1,89,990", link |-> "l2"],
      [title |-> "MacBook Air 13 512GB Silver", source |-> "Croma",
       price |-> Rupee \o "1,14,900", link |-> "l3"],
      [title |-> "MacBook Pro 16-inch 1TB 16GB", source |-> "eBay",
       price |-> Rupee \o "3,340.00", link |-> "l4"],
      [title |-> "MacBook Pro 16-inch", source |-> "Apple Store (Amazon)",
       price |-> Rupee \o "2,39,900", link |-> "l5"],
      [title |-> "Used MacBook Air 13", source |-> "Local shop",
       price |-> Rupee \o "55,000", link |-> "l6"] }

\* Sequences of at most n elements of S.
SeqUpTo(S, n) == UNION { [1..k -> S] : k \in 0..n }

\* Preference texts: what the shopper may say about model, size, condition
\* and the remaining attributes, joined as the form joins its answers.
RankPreferences ==
    { m \o z \o c \o x :
        m \in {"", "Pro. ", "Air. "},
        z \in {"", "16-inch. "},
        c \in {"", "new. "},
        x \in {"", "512GB 1TB 16GB silver. "} }

\* The follow-up inputs, all empty.
NoAnswers == [i \in 0..8 |-> ""]

\* The keys os.getenv finds in the environment (lines 18-22).
EnvironmentKeys == [SERPAPI_KEY |-> "serpapi-key", OPENAI_API_KEY |-> "openai-key"]

InitSession ==
    /\ api_keys = EnvironmentKeys
    /\ user_name = ""
    /\ user_preferences = ""
    /\ search_performed = FALSE
    /\ filtered_products = <<>>
    /\ original_query = ""
    /\ base_product = ""
    /\ answers = NoAnswers
    /\ notices = {}
    /\ fetch_params = [called |-> FALSE]
    /\ summary_args = None
    /\ match_percentages = <<>>

InitRank ==
    /\ InitSession
    /\ pc = "call"
    /\ args \in [products : SeqUpTo(Catalog, MaxListings),
                 user_preferences : RankPreferences]
    /\ ret = <<>>

\* filtered_products = filter_results(products, preferences)
CallFilterResults ==
    /\ pc = "call"
    /\ ret' = filter_results(args.products, args.user_preferences)
    /\ pc' = "done"
    /\ UNCHANGED <<args, session>>

NextRank == CallFilterResults

SpecRank == InitRank /\ [][NextRank]_vars

-----------------------------------------------------------------------------
(* Claims about filter_results *)

\* The listing of the API that an output record was made from.
Unscored(r) ==
    [title |-> r.title, source |-> r.source, price |-> r.price, link |-> r.link]

Orderings(n) == { p \in [1..n -> 1..n] : \A i, j \in 1..n : i # j => p[i] # p[j] }

\* C1: filter_results returns the listings ordered by non-increasing
\* match_score, and listings with equal match_score keep the relative order
\* they had in the input (a stable descending sort).
C1_StableDescending ==
    pc = "done" =>
        /\ Len(ret) = Len(args.products)
        /\ \A k \in 1..(Len(ret) - 1) : ret[k].match_score >= ret[k + 1].match_score
        /\ \E p \in Orderings(Len(ret)) :
              /\ \A k \in 1..Len(ret) : Unscored(ret[k]) = args.products[p[k]]
              /\ \A k, l \in 1..Len(ret) :
                    (k < l /\ ret[k].match_score = ret[l].match_score) => p[k] < p[l]

\* Two different listings with the same score were ranked, below a listing
\* that came after them in the input.
C1_Witness ==
    /\ pc = "done"
    /\ Len(ret) = 3
    /\ ret[1].match_score > ret[2].match_score
    /\ ret[2].match_score = ret[3].match_score
    /\ ret[2].link # ret[3].link
    /\ Unscored(ret[1]) = args.products[3]


\* The rubric conditions of one listing, read off its lower-cased title and
\* source and the lower-cased preference text.
InBoth(pl, tl, x) == Contains(pl, x) /\ Contains(tl, x)
InBothAny(pl, tl, x, y) ==
    (Contains(pl, x) \/ Contains(pl, y)) /\ (Contains(tl, x) \/ Contains(tl, y))
SellersNamed(sl) ==
    { i \in 1..Len(preferred_sellers) : Contains(sl, preferred_sellers[i]) }
ColorsMatched(pl, tl) == { i \in 1..Len(colors) : InBoth(pl, tl, colors[i]) }
Penalised(pl, tl) ==
    Contains(pl, "new") /\ (Contains(tl, "refurbished") \/ Contains(tl, "used"))

\* No rubric condition other than "pro", the 16-inch marker and the
\* preferred seller holds of the listing.
NoOtherCondition(pl, tl) ==
    /\ ~InBoth(pl, tl, "air")
    /\ ~InBoth(pl, tl, "14") /\ ~InBoth(pl, tl, "13")
    /\ ~InBoth(pl, tl, "512")
    /\ ~InBothAny(pl, tl, "1tb", "1 tb") /\ ~InBothAny(pl, tl, "2tb", "2 tb")
    /\ ~InBothAny(pl, tl, "16gb", "16 gb") /\ ~InBothAny(pl, tl, "32gb", "32 gb")
    /\ ColorsMatched(pl, tl) = {}
    /\ ~Penalised(pl, tl)

\* C2: under a preference text containing "pro" and "16", every listing
\* whose title contains "pro" and a 16-inch marker, whose source is a
\* preferred seller and which meets no other rubric condition is assigned
\* match_score exactly 5 + 4 + 3 = 12.
C2_ProSixteenSellerScoresTwelve ==
    pc = "done" =>
        \A k \in 1..Len(ret) :
            LET pl == Lower(args.user_preferences)
                tl == Lower(ret[k].title)
                sl == Lower(ret[k].source)
            IN  ( /\ Contains(pl, "pro") /\ Contains(pl, "16")
                  /\ Contains(tl, "pro") /\ Contains(tl, "16")
                  /\ SellersNamed(sl) # {}
                  /\ NoOtherCondition(pl, tl) )
                => ret[k].match_score = 12

\* The points of the rubric rows other than the penalty row.
OtherContributions(pl, tl, sl) ==
      5 * Cardinality({ x \in {"pro", "air"} : InBoth(pl, tl, x) })
    + 4 * Cardinality({ x \in {"16", "14", "13"} : InBoth(pl, tl, x) })
    + 3 * Cardinality({ x \in {"512"} : InBoth(pl, tl, x) })
    + 3 * Cardinality({ x \in {<<"1tb", "1 tb">>, <<"2tb", "2 tb">>} :
                          InBothAny(pl, tl, x[1], x[2]) })
    + 2 * Cardinality({ x \in {<<"16gb", "16 gb">>, <<"32gb", "32 gb">>} :
                          InBothAny(pl, tl, x[1], x[2]) })
    + 3 * Cardinality(ColorsMatched(pl, tl))
    + 3 * Cardinality(SellersNamed(sl))

PointsWithoutSeller(pl, tl) ==
    OtherContributions(pl, tl, "") - (IF Penalised(pl, tl) THEN 10 ELSE 0)

\* C11: the preferred-seller row contributes 3 to a listing's match_score
\* when its source names a preferred seller and 0 otherwise, whatever the
\* source is, a source that names several preferred sellers included.
C11_SellerRowIsZeroOrThree ==
    pc = "done" =>
        \A k \in 1..Len(ret) :
            LET pl == Lower(args.user_preferences)
                tl == Lower(ret[k].title)
                sl == Lower(ret[k].source)
            IN  ret[k].match_score - PointsWithoutSeller(pl, tl) =
                    IF SellersNamed(sl) # {} THEN 3 ELSE 0


-----------------------------------------------------------------------------
(* The query builder called on a preference text, then on the text extended
   with one more attribute keyword.  args and ret log the calls in order. *)

QueryBases == {"MacBook M3", "iPhone 15 1TB"}

QueryPreferences ==
    { m \o z \o g \o r \o c :
        m \in {"", "Air "},
        z \in {"", "14-inch "},
        g \in {"", "512GB ", "1TB ", "2 tb "},
        r \in {"", "32GB ", "16 gb "},
        c \in {"", "Space Grey ", "red "} }

\* The attribute keywords of the fixed vocabulary.
Keywords ==
    {"pro", "air", "16", "14", "13", "512", "1TB", "2TB", "16GB", "32GB",
     "silver", "gold"}

InitQuery ==
    /\ InitSession
    /\ pc = "call"
    /\ args \in { <<a>> : a \in [base_product : QueryBases,
                                 user_preferences : QueryPreferences] }
    /\ ret = <<>>

\* search_query = build_search_query(base_product, preferences)
CallBuildSearchQuery ==
    /\ pc = "call"
    /\ ret' = <<build_search_query(args[1].base_product, args[1].user_preferences)>>
    /\ pc' = "built"
    /\ UNCHANGED <<args, session>>

\* The same request with one more keyword in the preference text.
CallBuildSearchQueryExtended ==
    /\ pc = "built"
    /\ \E K \in Keywords, sep \in {"", " "} :
          LET extended == [base_product |-> args[1].base_product,
                           user_preferences |-> args[1].user_preferences \o sep \o K]
          IN  /\ args' = Append(args, extended)
              /\ ret' = Append(ret, build_search_query(extended.base_product,
                                                       extended.user_preferences))
    /\ pc' = "rebuilt"
    /\ UNCHANGED session

NextQuery == CallBuildSearchQuery \/ CallBuildSearchQueryExtended

SpecQuery == InitQuery /\ [][NextQuery]_vars

-----------------------------------------------------------------------------
(* Claims about build_search_query *)

\* What call n appended to its base product.
AppendedPart(n) ==
    SubSeq(ret[n], Len(args[n].base_product) + 1, Len(ret[n]))

\* Call n appended suffix sfx (every suffix starts with its blank).
Appends(n, sfx) == Contains(AppendedPart(n), sfx)

StorageSuffixes == <<" 512GB", " 1TB", " 2TB">>
RamSuffixes == <<" 16GB", " 32GB">>
FreeSuffixes ==
    {" Pro", " Air", " 16-inch", " 14-inch", " 13-inch"}
        \cup { " " \o colors[i] : i \in 1..Len(colors) }
AllSuffixes ==
    FreeSuffixes \cup { StorageSuffixes[i] : i \in 1..3 }
                 \cup { RamSuffixes[i] : i \in 1..2 }

Has512Marker(preferences) == Contains(preferences, "512")
Has1TBMarker(preferences) ==
    Contains(Lower(preferences), "1tb") \/ Contains(Lower(preferences), "1 tb")

\* C6: the query has at most one of the suffixes " 512GB", " 1TB", " 2TB"
\* appended, and for a text with both a 512GB and a 1TB marker it is " 512GB".
C6_OneStorageSuffixByPriority ==
    \A n \in 1..Len(ret) :
        /\ Cardinality({ i \in 1..3 : Appends(n, StorageSuffixes[i]) }) <= 1
        /\ (Has512Marker(args[n].user_preferences) /\ Has1TBMarker(args[n].user_preferences))
              => (Appends(n, " 512GB") /\ ~Appends(n, " 1TB"))

\* A query was built for a text that has both a 512GB and a 1TB marker.
C6_Witness ==
    \E n \in 1..Len(ret) :
        /\ Has512Marker(args[n].user_preferences)
        /\ Has1TBMarker(args[n].user_preferences)
        /\ Appends(n, " 512GB")


-----------------------------------------------------------------------------
(* The price extractor called on preference texts whose first price phrase
   is "[between] A to|and|- B", with text before and after it. *)

\* Numeric literals with their value: <<literal, whole part, hundredths>>.
PriceLiterals ==
    { <<"7", 7, 0>>, <<"50,000", 50000, 0>>, <<"1,50,000", 150000, 0>>,
      <<"90000.50", 90000, 50>>, <<"2,00,000.5", 200000, 50>> }

\* The float a literal of PriceLiterals denotes.
LiteralValue(lit) == lit[2] * Pow10(FracDigits) + lit[3] * Pow10(FracDigits - 2)

PhraseTexts ==
    { [user_preferences |->
           pre \o btw \o ga \o A[1] \o sp \o sep \o sp \o gb \o B[1] \o post,
       first_A |-> A, first_B |-> B] :
        pre \in {"", "Budget: ", "M3 16-inch 512GB, "},
        btw \in {"", "Between  "},
        ga \in {"", Rupee},
        A \in PriceLiterals,
        sp \in {"", " "},
        sep \in {"to", "-", "and", "AND"},
        gb \in {"", Rupee},
        B \in PriceLiterals,
        post \in {"", ". EMI", " or 5 to 6"} }

\* Texts without a price phrase.
PlainTexts ==
    { [user_preferences |-> t, first_A |-> None, first_B |-> None] :
        t \in {"", "Pro 16-inch 512GB", "under 50,000", "between jobs and 2 kids",
               "13-inch, 14-inch", "1.5.7 to go"} }

InitPrice ==
    /\ InitSession
    /\ pc = "call"
    /\ args \in PhraseTexts \cup PlainTexts
    /\ ret = <<>>

\* min_price, max_price = extract_price_range(preferences)
CallExtractPriceRange ==
    /\ pc = "call"
    /\ ret' = extract_price_range(args.user_preferences)
    /\ pc' = "done"
    /\ UNCHANGED <<args, session>>

NextPrice == CallExtractPriceRange

SpecPrice == InitPrice /\ [][NextPrice]_vars

-----------------------------------------------------------------------------
(* Claims about extract_price_range *)

\* C7: for a text whose first price phrase is "[between] A to|and|- B", A
\* and B numeric literals with optional grouping commas, decimal part and
\* leading rupee glyph, extract_price_range returns (A, B) as the floats the
\* comma-stripped literals denote; only the first phrase of the text counts.
C7_FirstPhraseBounds ==
    (pc = "done" /\ args.first_A # None) =>
        ret = <<Float(LiteralValue(args.first_A)), Float(LiteralValue(args.first_B))>>

\* A "between" phrase with glyphs, commas and a decimal part, followed by a
\* second phrase, was extracted.
C7_Witness ==
    /\ pc = "done"
    /\ args.user_preferences =
          "Budget: Between  " \o Rupee \o "1,50,000 and " \o Rupee \o "2,00,000.5 or 5 to 6"
    /\ ret = <<Float(150000 * Pow10(FracDigits)),
                Float(200000 * Pow10(FracDigits) + 5 * Pow10(FracDigits - 1))>>

\* C8: whenever extract_price_range returns both bounds set, the minimum is
\* less than or equal to the maximum.
C8_MinAtMostMax ==
    (pc = "done" /\ ret[1] # None /\ ret[2] # None) => ret[1][1] <= ret[2][1]


-----------------------------------------------------------------------------
(* The currency normalisation applied to a price of the API, then to its
   own result.  ret logs the results in order. *)

PriceTokens == {Rupee, "$", "1", "5", ",", ".", "N/A"}

RECURSIVE Joined(_)
Joined(tokens) == IF tokens = <<>> THEN "" ELSE Head(tokens) \o Joined(Tail(tokens))

PriceStrings == { Joined(ts) : ts \in SeqUpTo(PriceTokens, MaxPriceLen) }

InitRupee ==
    /\ InitSession
    /\ pc = "call"
    /\ args \in [price_str : PriceStrings]
    /\ ret = <<>>

\* result["price"] = ensure_rupee_format(result["price"])
CallEnsureRupeeFormat ==
    /\ pc = "call"
    /\ ret' = <<ensure_rupee_format(args.price_str)>>
    /\ pc' = "once"
    /\ UNCHANGED <<args, session>>

\* The normalisation applied to its own result.
CallEnsureRupeeFormatAgain ==
    /\ pc = "once"
    /\ ret' = Append(ret, ensure_rupee_format(ret[1]))
    /\ pc' = "twice"
    /\ UNCHANGED <<args, session>>

NextRupee == CallEnsureRupeeFormat \/ CallEnsureRupeeFormatAgain

SpecRupee == InitRupee /\ [][NextRupee]_vars

-----------------------------------------------------------------------------
(* Claims about ensure_rupee_format *)

\* C10 (as claimed): ensure_rupee_format(ensure_rupee_format(p)) equals
\* ensure_rupee_format(p) for every price string p, and an already
\* rupee-prefixed value is returned unchanged.
C10_IdempotentAndPrefixedUnchanged ==
    /\ pc = "twice" => ret[2] = ret[1]
    /\ (pc # "call" /\ StartsWith(args.price_str, Rupee)) => ret[1] = args.price_str

\* C10 (amended): ensure_rupee_format(ensure_rupee_format(p)) equals
\* ensure_rupee_format(p) for every price string p, and a rupee-prefixed
\* value that holds no "$" is returned unchanged.
C10_Idempotent ==
    /\ pc = "twice" => ret[2] = ret[1]
    /\ (pc # "call" /\ StartsWith(args.price_str, Rupee) /\ ~Contains(args.price_str, "$"))
          => ret[1] = args.price_str

\* A dollar price was converted to rupees and normalised a second time.
C10_Witness ==
    /\ pc = "twice"
    /\ args.price_str = "$15"
    /\ ret = <<Rupee \o "1,252.50", Rupee \o "1,252.50">>


-----------------------------------------------------------------------------
(* get_follow_up_questions, src/main.py 240-274 *)

MacBookQuestions ==
    <<"Do you prefer MacBook Pro or MacBook Air?",
      "What screen size are you looking for? (13-inch, 14-inch, 16-inch)",
      "How much storage do you need? (256GB, 512GB, 1TB)",
      "What's your budget range in rupees? (e.g., " \o Rupee \o "90,000-" \o Rupee \o "1,50,000)",
      "Any specific RAM requirements? (8GB, 16GB, 32GB)",
      "Do you prefer any particular color? (Silver, Space Grey, Gold)",
      "Are you looking for new or refurbished?",
      "Do you have any preferred seller? (Amazon, Flipkart, Apple Store, Croma, etc.)",
      "Do you need EMI options?">>

IPhoneQuestions ==
    <<"Which iPhone model are you interested in? (e.g., 14, 15, Pro, Pro Max)",
      "What storage capacity do you need? (128GB, 256GB, 512GB, 1TB)",
      "What's your budget range in rupees?",
      "Do you have a color preference?",
      "Are you looking for new or refurbished?",
      "Do you have any preferred seller? (Amazon, Flipkart, Apple Store, Croma, etc.)",
      "Are you interested in exchange offers?",
      "Do you need EMI options?">>

OtherQuestions ==
    <<"What's your budget range in rupees?",
      "Any specific features you're looking for?",
      "Do you have a brand preference?",
      "Are you looking for new or refurbished items?",
      "Do you have any preferred seller? (Amazon, Flipkart, etc.)",
      "Do you need EMI options?",
      "Is warranty an important factor for you?">>

get_follow_up_questions(base) ==
    IF Contains(Lower(base), "macbook") THEN MacBookQuestions
    ELSE IF Contains(Lower(base), "iphone") THEN IPhoneQuestions
    ELSE OtherQuestions

-----------------------------------------------------------------------------
(* The Find Products handler and the session flow, src/main.py 352-449 *)

\* for i in range(len(follow_up_questions)): if q<i> is answered:
\*     preferences += follow_up_questions[i] + ": " + answer + ". "
\* (question i of the code is questions[i + 1] here)
RECURSIVE AnsweredFrom(_, _, _)
AnsweredFrom(questions, given, i) ==
    IF i >= Len(questions) THEN ""
    ELSE (IF given[i] # "" THEN questions[i + 1] \o ": " \o given[i] \o ". " ELSE "")
         \o AnsweredFrom(questions, given, i + 1)

\* The preference text the handler collects (lines 396-403).
CollectPreferences(base, given, name) ==
    AnsweredFrom(get_follow_up_questions(base), given, 0)
        \o (IF name # "" THEN " For user: " \o name \o "." ELSE "")

\* The handler's test of the fetched products taken as "is not None".
ProductsNotNone(products) == TRUE

\* if products: (line 417)
ProductsFound(products) == products # <<>>

\* The loop of lines 132-136 on one listing.
Normalised(result) ==
    [title |-> result.title, source |-> result.source,
     price |-> ensure_rupee_format(result.price), link |-> result.link]

\* fetch_shopping_results, given what the search call does: it raises, or it
\* returns the listings of `response`.
fetch_shopping_results(response) ==
    IF response.raises
    THEN [products |-> <<>>, notices |-> {"fetch_error"}]
    ELSE [products |-> [i \in 1..Len(response.shopping_results) |->
                            Normalised(response.shopping_results[i])],
          notices |-> {}]

\* params of lines 113-125: the query, and the price range when both bounds
\* are set (the bounds are kept as floats, not rendered).
SearchParams(query, min_price, max_price) ==
    [called |-> TRUE, q |-> query,
     price_range |-> IF min_price # None /\ max_price # None
                     THEN <<min_price, max_price>> ELSE None]

\* A script run that leaves original_query as the last run left it.
RunTopKeepingQuery == original_query' = original_query

\* Lines 374-375, at the top of every script run.
RunTop ==
    original_query' =
        IF base_product' # "" /\ ~search_performed' THEN base_product' ELSE original_query

\* products[:10] of the detailed view (line 527).
DetailedViewLimit == 10

\* int(): truncation towards zero of the quotient n / d, d > 0.
IntOfQuotient(n, d) == IF n >= 0 THEN n \div d ELSE -((-n) \div d)

\* min(100, int(match_score / 20 * 100)) of lines 480 and 570.  The float
\* product can fall one short of 5 * match_score only for scores of 23 and
\* more, where min() returns 100 either way.
match_percentage(match_score) ==
    LET percent == IntOfQuotient(match_score * 100, 20)
    IN  IF percent < 100 THEN percent ELSE 100

\* The percentages the detailed view computes and hands, divided by 100, to
\* st.progress (lines 527, 536, 570-572), listing by listing.  st.progress
\* accepts a value in 0..1 only, so the loop ends at the first percentage
\* outside 0..100.
MatchPercentages(products) ==
    LET shown == IF Len(products) < DetailedViewLimit
                 THEN Len(products) ELSE DetailedViewLimit
        percent == [k \in 1..shown |-> match_percentage(products[k].match_score)]
        rejected == { k \in 1..shown : percent[k] \notin 0..100 }
    IN  IF rejected = {} THEN percent
        ELSE SubSeq(percent, 1, CHOOSE k \in rejected : \A l \in rejected : k <= l)

\* Lines 427-572 of a run that reaches them: the summary is asked for when
\* results are shown, and the language-model call answers or raises; then
\* the listings are drawn with their match percentages.
Display ==
    IF search_performed' /\ filtered_products' # <<>>
    THEN /\ summary_args' = <<[products |-> filtered_products',
                               user_preferences |-> user_preferences']>>
         /\ \E answered \in BOOLEAN :
               notices' = IF answered THEN {} ELSE {"summary_error"}
         /\ match_percentages' = MatchPercentages(filtered_products')
    ELSE /\ summary_args' = None
         /\ notices' = {}
         /\ match_percentages' = <<>>

\* What the shopper may type and what the search API may answer.
ProductNames == {"MacBook M3", "iPhone 15", "Laptop bag"}
UserNames == {"Asha"}

ScenarioAnswers ==
    [i \in 0..8 |->
        IF i = 0 THEN "Pro"
        ELSE IF i = 1 THEN "16-inch"
        ELSE IF i = 3 THEN "between " \o Rupee \o "1,50,000 and " \o Rupee \o "2,00,000"
        ELSE ""]

AnswerSheets ==
    { NoAnswers, ScenarioAnswers,
      [i \in 0..8 |-> IF i = 2 THEN "2,00,000 to 1,00,000" ELSE IF i = 4 THEN "new" ELSE ""] }

\* Listings as the API sends them: a price without the glyph, a dollar price.
ApiListings ==
    <<[title |-> "Apple MacBook Pro 16-inch", source |-> "Amazon.in",
       price |-> "2,49,900", link |-> "l1"],
      [title |-> "MacBook Pro 16 (Refurbished)", source |-> "Flipkart",
       price |-> Rupee \o "1,89,990", link |-> "l2"],
      [title |-> "MacBook Pro 16-inch 1TB 16GB", source |-> "eBay",
       price |-> "$40", link |-> "l4"]>>

ApiResponses ==
    { [raises |-> TRUE] }
        \cup { [raises |-> FALSE, shopping_results |-> r] :
                 r \in { <<>>, <<ApiListings[1]>>, <<ApiListings[3], ApiListings[2]>>,
                         ApiListings } }

Init ==
    /\ InitSession
    /\ pc = "idle"
    /\ args = <<>>
    /\ ret = <<>>

\* The shopper fills in or clears the product input (line 372).
TypeProduct ==
    /\ pc = "idle"
    /\ \E b \in ProductNames \cup {""} : b # base_product /\ base_product' = b
    /\ UNCHANGED <<api_keys, user_name, user_preferences, search_performed, filtered_products,
                   answers, fetch_params, pc, args, ret>>
    /\ RunTop
    /\ Display

\* The shopper answers the follow-up questions (lines 384-392).
TypeAnswers ==
    /\ pc = "idle"
    /\ base_product # "" /\ ~search_performed
    /\ \E a \in AnswerSheets : a # answers /\ answers' = a
    /\ UNCHANGED <<api_keys, user_name, user_preferences, search_performed, filtered_products,
                   base_product, fetch_params, pc, args, ret>>
    /\ RunTop
    /\ Display

\* The shopper gives a name (lines 365-369).
EnterName ==
    /\ pc = "idle"
    /\ user_name = ""
    /\ \E n \in UserNames : user_name' = n
    /\ UNCHANGED <<api_keys, user_preferences, search_performed, filtered_products,
                   base_product, answers, fetch_params, pc, args, ret>>
    /\ RunTop
    /\ Display

\* The "Find Products" button (lines 395-424).
FindProducts ==
    /\ pc = "idle"
    /\ base_product # "" /\ ~search_performed
    /\ \E response \in ApiResponses :
          LET preferences == CollectPreferences(base_product, answers, user_name)
              range == extract_price_range(preferences)
              search_query == build_search_query(base_product, preferences)
              fetched == fetch_shopping_results(response)
          IN  /\ original_query' = base_product
              /\ user_preferences' = preferences
              /\ fetch_params' = SearchParams(search_query, range[1], range[2])
              /\ notices' = fetched.notices
                    \cup (IF ProductsFound(fetched.products) THEN {} ELSE {"no_products"})
              /\ IF ProductsFound(fetched.products)
                 THEN /\ filtered_products' = filter_results(fetched.products, preferences)
                      /\ search_performed' = TRUE
                      /\ pc' = "rerun"
                 ELSE UNCHANGED <<filtered_products, search_performed, pc>>
    /\ summary_args' = None
    /\ match_percentages' = <<>>
    /\ UNCHANGED <<api_keys, user_name, base_product, answers, args, ret>>

\* The "Start New Search" button (lines 432-437).
StartNewSearch ==
    /\ pc = "idle"
    /\ search_performed
    /\ search_performed' = FALSE
    /\ user_preferences' = ""
    /\ filtered_products' = <<>>
    /\ original_query' = ""
    /\ pc' = "rerun"
    /\ notices' = {}
    /\ summary_args' = None
    /\ match_percentages' = <<>>
    /\ UNCHANGED <<api_keys, user_name, base_product, answers, fetch_params, args, ret>>

\* A button of the results page: "EMI Options", "Add to Compare".
ClickResultButton ==
    /\ pc = "idle"
    /\ search_performed
    /\ UNCHANGED <<api_keys, user_name, user_preferences, search_performed, filtered_products,
                   base_product, answers, fetch_params, pc, args, ret>>
    /\ RunTop
    /\ Display

\* The script run that st.rerun() starts (lines 422, 437).
Rerun ==
    /\ pc = "rerun"
    /\ pc' = "idle"
    /\ UNCHANGED <<api_keys, user_name, user_preferences, search_performed, filtered_products,
                   base_product, answers, fetch_params, args, ret>>
    /\ RunTop
    /\ Display

Next ==
    \/ TypeProduct
    \/ TypeAnswers
    \/ EnterName
    \/ FindProducts
    \/ StartNewSearch
    \/ ClickResultButton
    \/ Rerun

Spec == Init /\ [][Next]_vars

-----------------------------------------------------------------------------
(* Claims about the Find Products flow *)

\* The preference text of the end-to-end scenario, without and with a name.
ScenarioTexts ==
    { CollectPreferences("MacBook M3", ScenarioAnswers, n) : n \in UserNames \cup {""} }

\* C4: for base product "MacBook M3" and the scenario's answers (Pro,
\* 16-inch, between 1,50,000 and 2,00,000 with rupee glyphs) the built query
\* contains "MacBook M3 Pro 16-inch" and the extracted range is
\* (150000.0, 200000.0).
C4_EndToEndScenario ==
    ( /\ fetch_params.called
      /\ user_preferences \in ScenarioTexts
      /\ StartsWith(fetch_params.q, "MacBook M3") )
    => /\ Contains(fetch_params.q, "MacBook M3 Pro 16-inch")
       /\ fetch_params.price_range =
             <<Float(150000 * Pow10(FracDigits)), Float(200000 * Pow10(FracDigits))>>

\* C12: every match percentage min(100, int(match_score / 20 * 100)) that
\* the display computes for a listing ranked by filter_results lies between
\* 0 and 100, so the value handed to the progress bar lies between 0 and 1.
C12_MatchPercentageInRange ==
    \A k \in 1..Len(match_percentages) :
        match_percentages[k] >= 0 /\ match_percentages[k] <= 100

\* The listings, as fetched, that a ranked sequence was made from.
UnscoredSeq(ranked) == [k \in 1..Len(ranked) |-> Unscored(ranked[k])]

\* C13: in every reachable session state, search_performed is true only if
\* filtered_products is a non-empty sequence in non-increasing match_score
\* order that filter_results produces for the stored user_preferences; and
\* generate_summary is invoked only then, with that non-empty ranked
\* sequence and those preferences.
C13_ResultsRankedBeforeSummary ==
    /\ search_performed =>
          /\ filtered_products # <<>>
          /\ \A k \in 1..(Len(filtered_products) - 1) :
                filtered_products[k].match_score >= filtered_products[k + 1].match_score
          /\ filtered_products =
                filter_results(UnscoredSeq(filtered_products), user_preferences)
    /\ summary_args # None =>
          /\ search_performed
          /\ summary_args[1].products = filtered_products
          /\ summary_args[1].products # <<>>
          /\ summary_args[1].user_preferences = user_preferences

\* The summary was asked for three ranked listings, the best of which the
\* API had sent last.
C13_Witness ==
    /\ search_performed
    /\ pc = "idle"
    /\ summary_args # None
    /\ Len(filtered_products) = 3
    /\ filtered_products[1].link = ApiListings[3].link
    /\ filtered_products[1].match_score > filtered_products[3].match_score

\* A step of the "Start New Search" button, the only one that turns
\* search_performed off, and the script run its st.rerun() starts.
NewSearchClicked == search_performed /\ ~search_performed'
NewSearchRerun == pc = "rerun" /\ ~search_performed

\* C14 (as claimed): "Start New Search", enabled only when search_performed
\* is true, resets search_performed to false, user_preferences to the empty
\* string, filtered_products to the empty list and original_query to the
\* empty string and leaves user_name and the two API keys unchanged; the
\* state the action results in equals the initial session state except for
\* user_name.
C14_NewSearchRestoresInitialState ==
    [][ (NewSearchClicked \/ NewSearchRerun) =>
            /\ search_performed' = FALSE
            /\ user_preferences' = ""
            /\ filtered_products' = <<>>
            /\ original_query' = ""
            /\ user_name' = user_name
            /\ api_keys' = api_keys ]_vars

\* C14 (amended): the button's handler resets the four fields and leaves
\* user_name and the API keys unchanged; the script run it then starts keeps
\* all of that except original_query, which it sets to the product input
\* when that is not empty.
C14_NewSearchResetsAllButQuery ==
    [][ /\ NewSearchClicked =>
              /\ user_preferences' = ""
              /\ filtered_products' = <<>>
              /\ original_query' = ""
              /\ user_name' = user_name
              /\ api_keys' = api_keys
              /\ pc' = "rerun"
        /\ NewSearchRerun =>
              /\ search_performed' = FALSE
              /\ user_preferences' = ""
              /\ filtered_products' = <<>>
              /\ original_query' = base_product
              /\ user_name' = user_name
              /\ api_keys' = api_keys ]_vars

\* The button was pressed by a named shopper whose product input is still
\* filled: the handler has reset the four fields and its rerun is due.
C14_Witness ==
    /\ NewSearchRerun
    /\ user_name # ""
    /\ base_product # ""
    /\ original_query = ""
    /\ user_preferences = ""
    /\ filtered_products = <<>>
    /\ fetch_params.called

\* C9: a fetch whose search call raises records an error notice and yields
\* no listings; the flow shows the no-products notice, leaves
\* search_performed false and filtered_products unchanged, and the run ends.
C9_FetchErrorIsNoMatches ==
    [][ "fetch_error" \in notices' =>
            /\ "no_products" \in notices'
            /\ search_performed' = FALSE
            /\ filtered_products' = filtered_products
            /\ pc' = "idle" ]_vars

\* The search call raised during a Find Products run.
C9_Witness ==
    /\ notices = {"fetch_error", "no_products"}
    /\ fetch_params.called
    /\ user_preferences # ""

====
